---- MODULE Spec2Model ----
(***************************************************************************)
(* A model of coinkit's seeded priority (consensus/seed_sort.go), signed   *)
(* operations (util), the transaction queue and ledger chunk hashing       *)
(* (currency), slot values and nomination (network/scp.go) and JSONObject  *)
(* (data).  Go strings and byte slices are sequences of byte values.       *)
(***************************************************************************)
EXTENDS Integers, Sequences, FiniteSets, TLC

VARIABLES
    seed,        \* seed argument of the SeedSort / SeedPriority calls
    input,       \* input argument of the SeedSort / SeedPriority calls
    sortCalled,  \* whether SeedSort(seed, input) has returned
    answer,      \* what SeedSort(seed, input) returned
    prio,        \* the last SeedPriority(seed, input, node) call and its outcome
    sop,         \* the SignedOperation under test: its Operation and Signature
    origin,      \* how sop came to be: "none", "signed", "literal", "tampered"
    exited,      \* Logger.Fatal has ended the process
    verified,    \* the last sop.Verify() call and its outcome
    queue,       \* the TransactionQueue: the set of queued transaction objects
    pending,     \* the transactions handed to Add and not to Remove since
    removedAny,  \* Remove has been called on the queue
    lastOp,      \* the last queue call: its argument, the queue before it, its result
    chunk,       \* the LedgerChunk under construction: Transactions and State
    chunkHash,      \* the last chunk.Hash() call and its result
    regs,        \* the caller's variables a, b and out: the slice header of each one's Comments
    heap,        \* the backing arrays of the Comments slices
    slotCall,    \* the last Combine or HasSlotValue call: its arguments before it, its result
    nState,      \* the NominationState: X, Y, Z and N
    nCall,       \* the last SetDefault or Handle call: its arguments, the state before it
    nHistory,    \* the first SetDefault call, and the last message handed to Handle for each node
    ob,          \* the JSONObject under test: its bytes and its content
    jsonCall     \* the last JSONObject call: the object before it, its error or panic, its result

vars == <<seed, input, sortCalled, answer, prio, sop, origin, exited, verified,
          queue, pending, removedAny, lastOp, chunk, chunkHash,
          regs, heap, slotCall,
          nState, nCall, nHistory,
          ob, jsonCall>>

seedVars == <<seed, input, sortCalled, answer, prio>>

signVars == <<sop, origin, exited, verified>>

\* what the actions of one component leave alone: the other components
queueVars == <<queue, pending, removedAny, lastOp>>

chunkVars == <<chunk, chunkHash>>

slotVars == <<regs, heap, slotCall>>

nominationVars == <<nState, nCall, nHistory>>

jsonVars == <<ob, jsonCall>>

seedOthers == <<signVars, queueVars, chunkVars, slotVars, nominationVars, jsonVars>>

signOthers == <<seedVars, queueVars, chunkVars, slotVars, nominationVars, jsonVars>>

queueOthers == <<seedVars, signVars, chunkVars, slotVars, nominationVars, jsonVars>>

chunkOthers == <<seedVars, signVars, queueVars, slotVars, nominationVars, jsonVars>>

slotOthers == <<seedVars, signVars, queueVars, chunkVars, nominationVars, jsonVars>>

nominationOthers == <<seedVars, signVars, queueVars, chunkVars, slotVars, jsonVars>>

jsonOthers == <<seedVars, signVars, queueVars, chunkVars, slotVars, nominationVars>>

(***************************************************************************)
(* Each component at rest, while another one is exercised                  *)
(***************************************************************************)
\* no SeedPriority call yet
NoPriority == [called |-> FALSE, node |-> <<>>, panicked |-> FALSE, index |-> 0]

\* no Verify call yet
NotVerified == [called |-> FALSE, panicked |-> FALSE, result |-> FALSE]

\* the empty string, among the strings that stand for keys and signatures
EmptyString == [kind |-> "empty", key |-> "", msg |-> <<>>]

\* the nil Operation interface value
NilOperation == [tag |-> "nil", signer |-> EmptyString, sequence |-> 0,
                 data |-> "{}", fee |-> 0]

SeedIdle ==
    /\ seed = <<>>
    /\ input = <<>>
    /\ sortCalled = FALSE
    /\ answer = <<>>
    /\ prio = NoPriority

SignIdle ==
    /\ sop = [Operation |-> NilOperation, Signature |-> EmptyString]
    /\ origin = "none"
    /\ exited = FALSE
    /\ verified = NotVerified

\* a nil *SignedTransaction
NilTransaction ==
    [content |-> [from |-> 0, sequence |-> 0, amount |-> 0, fee |-> 0, sig |-> "nil"],
     obj |-> 0]

\* no queue call yet
NoQueueCall == [kind |-> "none", tx |-> NilTransaction, before |-> {}, k |-> 0,
                result |-> <<>>]

QueueIdle ==
    /\ queue = {}
    /\ pending = {}
    /\ removedAny = FALSE
    /\ lastOp = NoQueueCall

\* a chunk of no transactions and no accounts
EmptyChunk == [Transactions |-> <<>>, State |-> << >>]

\* no Hash call yet
NotHashed == [called |-> FALSE, value |-> <<>>]

ChunkIdle ==
    /\ chunk = EmptyChunk
    /\ chunkHash = NotHashed

\* a nil slice: no backing array
NilSlice == [arr |-> 0, len |-> 0, cap |-> 0]

\* no Combine or HasSlotValue call yet
NoSlotCall == [kind |-> "none", first |-> "a", second |-> "b", firstBefore |-> <<>>,
               secondBefore |-> <<>>, result |-> <<>>, found |-> FALSE]

SlotIdle ==
    /\ regs = [r \in {"a", "b", "out"} |-> NilSlice]
    /\ heap = [i \in 1..3 |-> <<>>]
    /\ slotCall = NoSlotCall

\* NewNominationState(): X, Y and Z empty, N an empty map
EmptyNominationState == [X |-> <<>>, Y |-> <<>>, Z |-> <<>>, N |-> << >>]

\* no SetDefault or Handle call yet
NoNominationCall == [kind |-> "none", v |-> <<>>, node |-> "", m |-> <<>>,
                     before |-> EmptyNominationState]

\* no SetDefault call ever, no message handed to Handle ever
NoNominationHistory == [defaulted |-> FALSE, v |-> <<>>, before |-> <<>>,
                        heard |-> << >>]

NominationIdle ==
    /\ nState = EmptyNominationState
    /\ nCall = NoNominationCall
    /\ nHistory = NoNominationHistory

\* a nil map[string]interface{}
NilContent == [isNil |-> TRUE, m |-> << >>]

\* a nil *JSONObject
NoObject == [exists |-> FALSE, bytes |-> <<>>, content |-> NilContent]

\* no JSONObject call yet
NoJsonCall == [kind |-> "none", err |-> FALSE, panicked |-> FALSE,
               before |-> NoObject, result |-> <<>>]

JsonIdle ==
    /\ ob = NoObject
    /\ jsonCall = NoJsonCall

(***************************************************************************)
(* Bounds and input domains                                                *)
(***************************************************************************)
\* longest input list handed to SeedSort
MaxInput == 3

\* "slot:7:round:0" and "slot:7:round:1"
Seeds ==
    { <<115, 108, 111, 116, 58, 55, 58, 114, 111, 117, 110, 100, 58, 48>>,
      <<115, 108, 111, 116, 58, 55, 58, 114, 111, 117, 110, 100, 58, 49>> }

\* "A", "B", "C", "AB"
Nodes == { <<65>>, <<66>>, <<67>>, <<65, 66>> }

\* a node that is never put in an input list: "Z"
Stranger == <<90>>

(***************************************************************************)
(* Go string comparison and sort.Strings                                   *)
(***************************************************************************)
\* a < b for Go strings: bytewise lexicographic, a proper prefix is smaller
RECURSIVE StringLess(_, _)
StringLess(a, b) ==
    IF Len(b) = 0 THEN FALSE
    ELSE IF Len(a) = 0 THEN TRUE
    ELSE IF a[1] # b[1] THEN a[1] < b[1]
    ELSE StringLess(Tail(a), Tail(b))

StringLeq(a, b) == a = b \/ StringLess(a, b)

\* insert k into the ascending list s
RECURSIVE InsertSorted(_, _)
InsertSorted(k, s) ==
    IF Len(s) = 0 THEN <<k>>
    ELSE IF StringLeq(k, s[1]) THEN <<k>> \o s
    ELSE <<s[1]>> \o InsertSorted(k, Tail(s))

RECURSIVE SortAscending(_)
SortAscending(keys) ==
    IF Len(keys) = 0 THEN <<>>
    ELSE InsertSorted(keys[1], SortAscending(Tail(keys)))

\* the mutant of SortStrings: the sort.Strings call is left out
SortStrings_NoSort(keys) == keys

\* sort.Strings(keys): ascending; equal strings are indistinguishable, so the
\* sort's instability shows nowhere
SortStrings(keys) == SortAscending(keys)

(***************************************************************************)
(* HashString                                                              *)
(***************************************************************************)
\* SHA3-512 of the empty message, which sha3.New512().Sum appends: all 64 bytes
EmptyDigest ==
    << 166, 159, 115, 204, 162, 58, 154, 197, 200, 181, 103, 220, 24, 90, 117, 110,
       151, 201, 130, 22, 79, 226, 88, 89, 224, 209, 220, 193, 71, 92, 128, 166,
       21, 178, 18, 58, 241, 245, 249, 76, 17, 227, 233, 64, 44, 58, 197, 88,
       245, 0, 25, 157, 149, 182, 211, 227, 1, 117, 133, 134, 40, 29, 205, 38 >>

\* the base64 standard alphabet, as the byte value of the character of sextet i
Alphabet(i) ==
    IF i < 26 THEN 65 + i
    ELSE IF i < 52 THEN 71 + i
    ELSE IF i < 62 THEN i - 4
    ELSE IF i = 62 THEN 43
    ELSE 47

\* base64.RawStdEncoding.EncodeToString: three bytes to four characters, no padding
RECURSIVE EncodeToString(_)
EncodeToString(b) ==
    IF Len(b) = 0 THEN <<>>
    ELSE IF Len(b) = 1 THEN
        << Alphabet(b[1] \div 4), Alphabet((b[1] % 4) * 16) >>
    ELSE IF Len(b) = 2 THEN
        << Alphabet(b[1] \div 4),
           Alphabet((b[1] % 4) * 16 + b[2] \div 16),
           Alphabet((b[2] % 16) * 4) >>
    ELSE
        << Alphabet(b[1] \div 4),
           Alphabet((b[1] % 4) * 16 + b[2] \div 16),
           Alphabet((b[2] % 16) * 4 + b[3] \div 64),
           Alphabet(b[3] % 64) >> \o EncodeToString(SubSeq(b, 4, Len(b)))

\* the mutant of HashString: Sum is given no bytes, so every string hashes alike
HashString_NoInput(x) == EncodeToString(EmptyDigest)

\* h.Sum([]byte(x)) on a hasher nothing was written to appends the digest of the
\* empty message to x; the result is base64-encoded
HashString(x) == EncodeToString(x \o EmptyDigest)

(***************************************************************************)
(* SeedSort and SeedPriority                                               *)
(***************************************************************************)
\* the map m after the first n iterations of SeedSort's loop over input
RECURSIVE SeedSortMap(_, _, _)
SeedSortMap(s, in, n) ==
    IF n = 0 THEN << >>
    ELSE LET hashed == HashString(s \o in[n])
         IN  (hashed :> in[n]) @@ SeedSortMap(s, in, n - 1)

SeedSortKeys(s, in) == [i \in 1..Len(in) |-> HashString(s \o in[i])]

SeedSort(s, in) ==
    LET m    == SeedSortMap(s, in, Len(in))
        keys == SortStrings(SeedSortKeys(s, in))
    IN  [i \in 1..Len(keys) |-> m[keys[i]]]

\* a SeedPriority that returns -1, and no panic, for a node that is not there
SeedPriority_NeverPanics(s, in, node) ==
    LET sorted == SeedSort(s, in)
        hits   == {i \in 1..Len(sorted) : sorted[i] = node}
    IN  [panicked |-> FALSE,
         index |-> IF hits = {} THEN -1
                   ELSE (CHOOSE i \in hits : \A j \in hits : i <= j) - 1]

\* the index (from 0) of the first occurrence of node in the sorted list, or a panic
SeedPriority(s, in, node) ==
    LET sorted == SeedSort(s, in)
        hits   == {i \in 1..Len(sorted) : sorted[i] = node}
    IN  IF hits = {}
        THEN [panicked |-> TRUE, index |-> 0]
        ELSE [panicked |-> FALSE,
              index |-> (CHOOSE i \in hits : \A j \in hits : i <= j) - 1]

(***************************************************************************)
(* The callers of the seeded priority                                      *)
(***************************************************************************)
SeedInit ==
    /\ seed \in Seeds
    /\ input = <<>>
    /\ sortCalled = FALSE
    /\ answer = <<>>
    /\ prio = NoPriority
    /\ SignIdle
    /\ QueueIdle
    /\ ChunkIdle
    /\ SlotIdle
    /\ NominationIdle
    /\ JsonIdle

\* a new round: another seed, an empty node list
NewSeed(s) ==
    /\ seed' = s
    /\ input' = <<>>
    /\ sortCalled' = FALSE
    /\ answer' = <<>>
    /\ prio' = NoPriority
    /\ UNCHANGED seedOthers

\* the caller adds a node (possibly one already there) to the list
AppendNode(n) ==
    /\ Len(input) < MaxInput
    /\ input' = Append(input, n)
    /\ sortCalled' = FALSE
    /\ answer' = <<>>
    /\ prio' = NoPriority
    /\ UNCHANGED <<seed, seedOthers>>

CallSeedSort ==
    /\ sortCalled' = TRUE
    /\ answer' = SeedSort(seed, input)
    /\ UNCHANGED <<seed, input, prio, seedOthers>>

CallSeedPriority(n) ==
    /\ prio' = [called |-> TRUE, node |-> n] @@ SeedPriority(seed, input, n)
    /\ UNCHANGED <<seed, input, sortCalled, answer, seedOthers>>

SeedNext ==
    \/ \E s \in Seeds : NewSeed(s)
    \/ \E n \in Nodes : AppendNode(n)
    \/ CallSeedSort
    \/ \E n \in Nodes \cup {Stranger} : CallSeedPriority(n)


(***************************************************************************)
(* Keys, signatures and operations (util, data/update_operation.go)        *)
(***************************************************************************)
\* the highest Sequence and Fee an operation of the model carries
MaxSequence == 2
MaxFee == 1

\* secret phrases of the key pairs
KeyNames == {"mint", "bob"}

\* Strings that stand for keys and signatures: the empty string, the text of a
\* public key, the signature of a message under a key, and any other text.
JunkString == [kind |-> "junk", key |-> "", msg |-> <<>>]

\* kp.PublicKey().String()
PublicKeyString(k) == [kind |-> "pub", key |-> k, msg |-> <<>>]

\* kp.Sign(message)
KeyPairSign(k, message) == [kind |-> "sig", key |-> k, msg |-> message]

\* ReadPublicKey(s): an error unless s is the text of a public key
ReadPublicKey(s) ==
    IF s.kind = "pub" THEN [err |-> FALSE, pk |-> s.key]
    ELSE [err |-> TRUE, pk |-> ""]

\* util.Verify(pk, message, signature): signature is what the owner of pk
\* produced for message
Verify(pk, message, signature) ==
    /\ signature.kind = "sig"
    /\ signature.key = pk
    /\ signature.msg = message

\* the Data of an UpdateOperation: a JSONObject's bytes; "invalid" is an object
\* whose bytes are not JSON, which json.Marshal rejects
DataValues == {"{}", "{\"foo\":1}", "invalid"}

SignerStrings == {PublicKeyString(k) : k \in KeyNames} \cup {JunkString}

\* a nil *UpdateOperation held in the Operation interface
TypedNilOperation == [tag |-> "typednil", signer |-> EmptyString, sequence |-> 0,
                      data |-> "{}", fee |-> 0]

UpdateOperations ==
    [tag : {"Update"}, signer : SignerStrings, sequence : 1..MaxSequence,
     data : DataValues, fee : 0..MaxFee]

Operations == UpdateOperations \cup {NilOperation, TypedNilOperation}

\* op == nil || reflect.ValueOf(op).IsNil()
IsNilOperation(op) == op.tag = "nil" \/ op.tag = "typednil"

\* json.Marshal(op): the fields in declaration order, or an error
JsonMarshal(op) ==
    IF op.data = "invalid" THEN [err |-> TRUE, bytes |-> <<>>]
    ELSE [err |-> FALSE,
          bytes |-> << <<"Signer", op.signer>>, <<"Sequence", op.sequence>>,
                       <<"Data", op.data>>, <<"Fee", op.fee>> >>]

UpdateOperation_GetSigner(op) == op.signer

UpdateOperation_Verify(op) == TRUE

\* every signature of a message of the model, and the other strings
SignatureStrings ==
    {EmptyString, JunkString}
        \cup {PublicKeyString(k) : k \in KeyNames}
        \cup {KeyPairSign(k, JsonMarshal(op).bytes) :
                k \in KeyNames, op \in {o \in UpdateOperations : ~JsonMarshal(o).err}}

\* NewSignedOperation(op, kp): the signed operation, or Logger.Fatal
NewSignedOperation(op, kp) ==
    LET none == [Operation |-> NilOperation, Signature |-> EmptyString]
    IN  IF IsNilOperation(op) THEN [fatal |-> TRUE, value |-> none]
        ELSE IF PublicKeyString(kp) # UpdateOperation_GetSigner(op)
            THEN [fatal |-> TRUE, value |-> none]
        ELSE IF JsonMarshal(op).err THEN [fatal |-> TRUE, value |-> none]
        ELSE [fatal |-> FALSE,
              value |-> [Operation |-> op,
                         Signature |-> KeyPairSign(kp, JsonMarshal(op).bytes)]]

\* the mutant of SignedOperation_Verify: the signature is not checked at all
SignedOperation_Verify_NoSignatureCheck(s) ==
    IF IsNilOperation(s.Operation) THEN [panicked |-> FALSE, result |-> FALSE]
    ELSE IF ReadPublicKey(UpdateOperation_GetSigner(s.Operation)).err
        THEN [panicked |-> FALSE, result |-> FALSE]
    ELSE IF JsonMarshal(s.Operation).err THEN [panicked |-> FALSE, result |-> FALSE]
    ELSE [panicked |-> FALSE, result |-> UpdateOperation_Verify(s.Operation)]

\* s.Verify(): the third argument of util.Verify is s.Operation.Signer(), not
\* s.Signature
SignedOperation_Verify(s) ==
    IF IsNilOperation(s.Operation) THEN [panicked |-> FALSE, result |-> FALSE]
    ELSE LET read == ReadPublicKey(UpdateOperation_GetSigner(s.Operation))
             json == JsonMarshal(s.Operation)
         IN  IF read.err THEN [panicked |-> FALSE, result |-> FALSE]
             ELSE IF json.err THEN [panicked |-> FALSE, result |-> FALSE]
             ELSE IF ~Verify(read.pk, json.bytes, UpdateOperation_GetSigner(s.Operation))
                 THEN [panicked |-> FALSE, result |-> FALSE]
             ELSE IF ~UpdateOperation_Verify(s.Operation)
                 THEN [panicked |-> FALSE, result |-> FALSE]
             ELSE [panicked |-> FALSE, result |-> TRUE]

(***************************************************************************)
(* The callers of signed operations                                        *)
(***************************************************************************)
SignInit ==
    /\ sop = [Operation |-> NilOperation, Signature |-> EmptyString]
    /\ origin = "none"
    /\ exited = FALSE
    /\ verified = NotVerified
    /\ SeedIdle
    /\ QueueIdle
    /\ ChunkIdle
    /\ SlotIdle
    /\ NominationIdle
    /\ JsonIdle

\* sop = NewSignedOperation(op, kp); a Logger.Fatal ends the process
CallNewSignedOperation(op, kp) ==
    /\ ~exited
    /\ origin = "none"
    /\ UNCHANGED signOthers
    /\ LET made == NewSignedOperation(op, kp)
       IN  IF made.fatal
           THEN /\ exited' = TRUE
                /\ UNCHANGED <<sop, origin, verified>>
           ELSE /\ sop' = made.value
                /\ origin' = "signed"
                /\ verified' = NotVerified
                /\ UNCHANGED exited

\* sop = &SignedOperation{Operation: op, Signature: sig}, as a peer may send it;
\* &SignedOperation{} is the nil operation with the empty signature
MakeLiteral(op, sig) ==
    /\ ~exited
    /\ origin = "none"
    /\ sop' = [Operation |-> op, Signature |-> sig]
    /\ origin' = "literal"
    /\ verified' = NotVerified
    /\ UNCHANGED <<exited, signOthers>>

\* a field of the signed operation is altered after signing
TamperOperation(op) ==
    /\ ~exited
    /\ origin \in {"signed", "tampered"}
    /\ op # sop.Operation
    /\ sop' = [sop EXCEPT !.Operation = op]
    /\ origin' = "tampered"
    /\ verified' = NotVerified
    /\ UNCHANGED <<exited, signOthers>>

\* the signature is altered after signing
TamperSignature(sig) ==
    /\ ~exited
    /\ origin \in {"signed", "tampered"}
    /\ sig # sop.Signature
    /\ sop' = [sop EXCEPT !.Signature = sig]
    /\ origin' = "tampered"
    /\ verified' = NotVerified
    /\ UNCHANGED <<exited, signOthers>>

CallVerify ==
    /\ ~exited
    /\ origin # "none"
    /\ verified' = [called |-> TRUE] @@ SignedOperation_Verify(sop)
    /\ UNCHANGED <<sop, origin, exited, signOthers>>

SignNext ==
    \/ \E op \in Operations, kp \in KeyNames : CallNewSignedOperation(op, kp)
    \/ \E op \in Operations, sig \in SignatureStrings : MakeLiteral(op, sig)
    \/ \E op \in Operations : TamperOperation(op)
    \/ \E sig \in SignatureStrings : TamperSignature(sig)
    \/ CallVerify

(***************************************************************************)
(* The transaction queue (currency), from its contract and its test        *)
(***************************************************************************)
\* the capacity of the queue, and how many transactions beyond it the test adds
QueueLimit == 2
Overflow == 2

\* the decimal digits of n
RECURSIVE Decimal(_)
Decimal(n) == IF n < 10 THEN <<48 + n>> ELSE Decimal(n \div 10) \o <<48 + (n % 10)>>

\* the canonical form of a transaction: its fields by key in lexicographic
\* order, integers in decimal, and a last byte for the kind of its signature
CanonicalBytes(c) ==
    Decimal(c.amount) \o <<44>> \o Decimal(c.fee) \o <<44>> \o Decimal(c.from)
        \o <<44>> \o Decimal(c.sequence) \o <<44>>
        \o <<CASE c.sig = "valid" -> 118 [] c.sig = "bad" -> 98
               [] c.sig = "none" -> 117 [] OTHER -> 110>>

\* makeTestTransaction(i): signer i sends amount i at fee i, sequence 1
TestContent(i) == [from |-> i, sequence |-> 1, amount |-> i, fee |-> i, sig |-> "valid"]

TestContents == {TestContent(i) : i \in 1..(QueueLimit + Overflow)}

\* q.accounts.SetBalance(t.Transaction.From, 10 * t.Transaction.Amount)
Balance(signer) == 10 * signer

\* a second transaction of signer 1, at the fee of the first
SecondContent == [from |-> 1, sequence |-> 2, amount |-> 1, fee |-> 1, sig |-> "valid"]

\* a transaction of signer 2 at the highest fee, which the balance of signer 2
\* covers alone but not together with signer 2's test transaction
GreedyContent ==
    [from |-> 2, sequence |-> 2, amount |-> Balance(2) - (QueueLimit + Overflow + 1) - 1,
     fee |-> QueueLimit + Overflow + 1, sig |-> "valid"]

\* a transaction whose signature does not verify
BadSigContent == [from |-> 3, sequence |-> 1, amount |-> 3, fee |-> 3, sig |-> "bad"]

\* &SignedTransaction{}: no transaction, no signature
UnsignedContent == [from |-> 0, sequence |-> 0, amount |-> 0, fee |-> 0, sig |-> "none"]

Contents ==
    TestContents \cup {SecondContent, GreedyContent, BadSigContent, UnsignedContent}

\* the first construction of a transaction, and a separately constructed copy
Original(c) == [content |-> c, obj |-> 1]
Copy(c) == [content |-> c, obj |-> 2]

SameCanonical(a, b) == CanonicalBytes(a.content) = CanonicalBytes(b.content)

Cost(c) == c.amount + c.fee

RECURSIVE SumCost(_)
SumCost(S) ==
    IF S = {} THEN 0
    ELSE LET c == CHOOSE x \in S : TRUE IN Cost(c) + SumCost(S \ {c})

\* the signer's balance covers tx on top of the signer's queued transactions
Covers(q, tx) ==
    Balance(tx.content.from) >=
        SumCost({e.content : e \in {x \in q : x.content.from = tx.content.from}})
            + Cost(tx.content)

\* e is evicted before f: lower fee, then higher sequence, then greater bytes
EvictedBefore(e, f) ==
    \/ e.content.fee < f.content.fee
    \/ /\ e.content.fee = f.content.fee
       /\ \/ e.content.sequence > f.content.sequence
          \/ /\ e.content.sequence = f.content.sequence
             /\ StringLess(CanonicalBytes(f.content), CanonicalBytes(e.content))

\* the mutant of Worst: the highest-fee entry is evicted
Worst_HighestFee(q) ==
    CHOOSE e \in q : \A f \in q : f.content.fee <= e.content.fee

Worst(q) == CHOOSE e \in q : \A f \in q \ {e} : EvictedBefore(e, f)

Size(q) == Cardinality(q)

IsIgnored(q, tx) ==
    \/ tx.content.sig = "nil"
    \/ tx.content.sig = "none"
    \/ tx.content.sig # "valid"
    \/ ~Covers(q, tx)

\* the mutant of Add: the capacity is not enforced
Add_NoLimit(q, tx) ==
    IF IsIgnored(q, tx) \/ (\E e \in q : SameCanonical(e, tx)) THEN q
    ELSE q \cup {tx}

\* the mutant of Add: a transaction that carries no signature is queued
Add_Unsigned(q, tx) ==
    IF tx.content.sig = "nil" \/ tx.content.sig = "bad" \/ ~Covers(q, tx)
        \/ (\E e \in q : SameCanonical(e, tx))
    THEN q
    ELSE IF Size(q \cup {tx}) > QueueLimit
        THEN (q \cup {tx}) \ {Worst(q \cup {tx})}
        ELSE q \cup {tx}

\* q.Add(tx)
Add(q, tx) ==
    IF IsIgnored(q, tx) THEN q
    ELSE IF \E e \in q : SameCanonical(e, tx) THEN q
    ELSE IF Size(q \cup {tx}) > QueueLimit
        THEN (q \cup {tx}) \ {Worst(q \cup {tx})}
        ELSE q \cup {tx}

\* the mutant of Remove: the entry is looked up by object identity
Remove_ByIdentity(q, tx) == q \ {tx}

\* q.Remove(tx)
Remove(q, tx) ==
    IF tx.content.sig = "nil" THEN q
    ELSE {e \in q : ~SameCanonical(e, tx)}

\* e comes before f in Top: fee descending, then signer, then sequence ascending
TopBefore(e, f) ==
    \/ e.content.fee > f.content.fee
    \/ /\ e.content.fee = f.content.fee
       /\ \/ e.content.from < f.content.from
          \/ /\ e.content.from = f.content.from
             /\ e.content.sequence < f.content.sequence

\* q.Top(k)
RECURSIVE Top(_, _)
Top(q, k) ==
    IF k = 0 \/ q = {} THEN <<>>
    ELSE LET first == CHOOSE e \in q : \A f \in q \ {e} : TopBefore(e, f)
         IN  <<first>> \o Top(q \ {first}, k - 1)

(***************************************************************************)
(* The callers of the queue                                                *)
(***************************************************************************)
\* NewTransactionQueue("testqueue")
QueueInit ==
    /\ queue = {}
    /\ pending = {}
    /\ removedAny = FALSE
    /\ lastOp = NoQueueCall
    /\ SeedIdle
    /\ SignIdle
    /\ ChunkIdle
    /\ SlotIdle
    /\ NominationIdle
    /\ JsonIdle

CallAdd(tx) ==
    /\ queue' = Add(queue, tx)
    /\ pending' = IF tx = NilTransaction THEN pending ELSE pending \cup {tx.content}
    /\ lastOp' = [kind |-> "add", tx |-> tx, before |-> queue, k |-> 0, result |-> <<>>]
    /\ UNCHANGED <<removedAny, queueOthers>>

CallRemove(tx) ==
    /\ queue' = Remove(queue, tx)
    /\ pending' = pending \ {tx.content}
    /\ removedAny' = TRUE
    /\ lastOp' = [kind |-> "remove", tx |-> tx, before |-> queue, k |-> 0,
                  result |-> <<>>]
    /\ UNCHANGED queueOthers

CallTop(k) ==
    /\ lastOp' = [kind |-> "top", tx |-> NilTransaction, before |-> queue, k |-> k,
                  result |-> Top(queue, k)]
    /\ UNCHANGED <<queue, pending, removedAny, queueOthers>>

QueueNext ==
    \/ \E c \in Contents : CallAdd(Original(c))
    \/ CallAdd(NilTransaction)
    \/ \E c \in Contents : CallRemove(Copy(c))
    \/ \E k \in 0..(QueueLimit + 1) : CallTop(k)

(***************************************************************************)
(* Ledger chunk hashing (currency), from its contract and its test         *)
(***************************************************************************)
\* the most transactions a chunk of the model holds
MaxTxs == 2

\* the transactions of the test: makeTestTransaction(1), (2) and (3)
ChunkTransactions == {TestContent(1), TestContent(2), TestContent(3)}

\* "a1" and "a2"
Addresses == { <<97, 49>>, <<97, 50>> }

\* the accounts of the test, and one at another sequence
Accounts ==
    { [Sequence |-> 1, Balance |-> 2], [Sequence |-> 1, Balance |-> 20],
      [Sequence |-> 2, Balance |-> 2] }

\* n in big-endian bytes: 16, 32 and 64 bits
U16BE(n) == << (n \div 256) % 256, n % 256 >>

U32BE(n) == U16BE((n \div 65536) % 65536) \o U16BE(n % 65536)

U64BE(n) ==
    U16BE((((n \div 65536) \div 65536) \div 65536) % 65536)
        \o U16BE(((n \div 65536) \div 65536) % 65536)
        \o U16BE((n \div 65536) % 65536) \o U16BE(n % 65536)

\* each transaction in order: its canonical bytes, length-prefixed
RECURSIVE TransactionsBytes(_)
TransactionsBytes(txs) ==
    IF Len(txs) = 0 THEN <<>>
    ELSE U32BE(Len(CanonicalBytes(txs[1]))) \o CanonicalBytes(txs[1])
            \o TransactionsBytes(Tail(txs))

\* each entry in the order of keys: address length, address, sequence, balance
RECURSIVE StateBytes(_, _)
StateBytes(state, keys) ==
    IF Len(keys) = 0 THEN <<>>
    ELSE U16BE(Len(keys[1])) \o keys[1] \o U32BE(state[keys[1]].Sequence)
            \o U64BE(state[keys[1]].Balance) \o StateBytes(state, Tail(keys))

\* the mutant of SortedAddresses: the entries stay in the map's iteration order
SortedAddresses_Unsorted(keys) == keys

\* the addresses ascending
SortedAddresses(keys) == SortAscending(keys)

\* the canonical serialization of a chunk whose map is iterated in order `keys`
ChunkBytes(c, keys) ==
    <<1>> \o TransactionsBytes(c.Transactions) \o <<2>>
        \o StateBytes(c.State, SortedAddresses(keys))

\* SHA3-512 over the serialization, taken to be free of collisions: the digest
\* stands for the bytes that were chunkHash
Sha3_512Digest(bytes) == <<"SHA3-512", bytes>>

\* c.Hash(), the range over c.State visiting the addresses in order `keys`
LedgerChunk_Hash(c, keys) == Sha3_512Digest(ChunkBytes(c, keys))

\* the orders in which a range over the map may visit its addresses
IterationOrders(state) ==
    LET n == Cardinality(DOMAIN state)
    IN  {o \in [1..n -> DOMAIN state] : \A i, j \in 1..n : o[i] = o[j] => i = j}

(***************************************************************************)
(* The callers of chunk hashing                                            *)
(***************************************************************************)
ChunkInit ==
    /\ chunk = EmptyChunk
    /\ chunkHash = NotHashed
    /\ SeedIdle
    /\ SignIdle
    /\ QueueIdle
    /\ SlotIdle
    /\ NominationIdle
    /\ JsonIdle

AppendTransaction(tx) ==
    /\ Len(chunk.Transactions) < MaxTxs
    /\ chunk' = [chunk EXCEPT !.Transactions = Append(@, tx)]
    /\ chunkHash' = NotHashed
    /\ UNCHANGED chunkOthers

\* the chunk without its i-th transaction
OmitTransaction(i) ==
    /\ i \in 1..Len(chunk.Transactions)
    /\ chunk' = [chunk EXCEPT !.Transactions =
                    SubSeq(@, 1, i - 1) \o SubSeq(@, i + 1, Len(@))]
    /\ chunkHash' = NotHashed
    /\ UNCHANGED chunkOthers

\* State[address] = account
PutAccount(address, account) ==
    /\ chunk' = [chunk EXCEPT !.State =
                    [a \in DOMAIN @ \cup {address} |->
                        IF a = address THEN account ELSE @[a]]]
    /\ chunk' # chunk
    /\ chunkHash' = NotHashed
    /\ UNCHANGED chunkOthers

\* the accounts of two addresses change places
SwapAccounts(a, b) ==
    /\ a \in DOMAIN chunk.State
    /\ b \in DOMAIN chunk.State
    /\ chunk.State[a] # chunk.State[b]
    /\ chunk' = [chunk EXCEPT !.State =
                    [x \in DOMAIN @ |-> IF x = a THEN @[b] ELSE IF x = b THEN @[a] ELSE @[x]]]
    /\ chunkHash' = NotHashed
    /\ UNCHANGED chunkOthers

CallHash(keys) ==
    /\ chunkHash' = [called |-> TRUE, value |-> LedgerChunk_Hash(chunk, keys)]
    /\ UNCHANGED <<chunk, chunkOthers>>

ChunkNext ==
    \/ \E tx \in ChunkTransactions : AppendTransaction(tx)
    \/ \E i \in 1..MaxTxs : OmitTransaction(i)
    \/ \E a \in Addresses, account \in Accounts : PutAccount(a, account)
    \/ \E a, b \in Addresses : SwapAccounts(a, b)
    \/ \E keys \in IterationOrders(chunk.State) : CallHash(keys)

(***************************************************************************)
(* Slot values (network/scp.go).  A []string is a slice header over a      *)
(* backing array: copies of a header share the array.                      *)
(***************************************************************************)
\* "a", "a,b", "b": the comments of the callers, one with a comma in it
CommentStrings == { <<97>>, <<97, 44, 98>>, <<98>> }

\* the variables of the caller that hold slot values
Registers == {"a", "b", "out"}

\* the backing arrays in use: no more than one for each variable
ArrayIds == 1..Cardinality(Registers)

\* the elements a slice header gives access to
Elements(hp, h) == IF h.arr = 0 THEN <<>> ELSE SubSeq(hp[h.arr], 1, h.len)

\* a backing array no variable refers to
Fresh(rs, dst) ==
    LET used == {rs[r].arr : r \in Registers \ {dst}}
        free == ArrayIds \ used
    IN  CHOOSE i \in free : \A j \in free : i <= j

\* the arrays the variables refer to; the others are garbage
Collect(rs, hp) ==
    [i \in ArrayIds |-> IF i \in {rs[r].arr : r \in Registers} THEN hp[i] ELSE <<>>]

\* the capacity of a slice grown by append, one element at a time, to hold n
RECURSIVE AppendCap(_, _)
AppendCap(n, cap) ==
    IF n <= cap THEN cap ELSE AppendCap(n, IF cap = 0 THEN 1 ELSE 2 * cap)

\* a slice of c elements of which the first Len(s) are s
Padded(s, c) == [i \in 1..c |-> IF i <= Len(s) THEN s[i] ELSE <<>>]

\* SlotValue{Comments: []string{comment}}
MakeSlotValue(comment) == [Comments |-> <<comment>>, cap |-> 1]

\* the loop of Combine: keep an item unless it equals the last one kept
RECURSIVE Dedup(_, _)
Dedup(joined, kept) ==
    IF joined = <<>> THEN kept
    ELSE Dedup(Tail(joined),
               IF Len(kept) = 0 \/ kept[Len(kept)] # Head(joined)
               THEN Append(kept, Head(joined))
               ELSE kept)

\* Combine(a, b) on the headers a and b.  append(a.Comments, b.Comments...)
\* writes into a's own array when the elements fit its capacity, and
\* sort.Strings then sorts that array in place.
Combine(hp, a, b) ==
    LET n      == a.len + b.len
        shared == n <= a.cap /\ a.arr # 0
        joined == SortStrings(Elements(hp, a) \o Elements(hp, b))
        kept   == Dedup(joined, <<>>)
    IN  [heap |-> IF shared
                  THEN [hp EXCEPT ![a.arr] = joined \o SubSeq(@, n + 1, Len(@))]
                  ELSE hp,
         Comments |-> kept,
         cap |-> AppendCap(Len(kept), 0)]

\* strings.Join(elems, sep)
RECURSIVE Join(_, _)
Join(elems, sep) ==
    IF elems = <<>> THEN <<>>
    ELSE IF Len(elems) = 1 THEN elems[1]
    ELSE elems[1] \o sep \o Join(Tail(elems), sep)

\* HasSlotValue(list, v): list and v by their Comments
HasSlotValue(list, v) ==
    LET k == Join(v, <<44>>)
    IN  \E i \in 1..Len(list) : Join(list[i], <<44>>) = k

(***************************************************************************)
(* The callers of the slot values                                          *)
(***************************************************************************)
\* the header of a new slice of the elements s with capacity c, stored in dst
Allocate(dst, s, c) ==
    LET id == Fresh(regs, dst)
        h  == IF c = 0 THEN NilSlice ELSE [arr |-> id, len |-> Len(s), cap |-> c]
    IN  [header |-> h, id |-> id, array |-> Padded(s, c)]

SlotInit ==
    /\ regs = [r \in Registers |-> NilSlice]
    /\ heap = [i \in ArrayIds |-> <<>>]
    /\ slotCall = NoSlotCall
    /\ SeedIdle
    /\ SignIdle
    /\ QueueIdle
    /\ ChunkIdle
    /\ NominationIdle
    /\ JsonIdle

\* r = MakeSlotValue(c)
CallMakeSlotValue(r, c) ==
    LET v   == MakeSlotValue(c)
        new == Allocate(r, v.Comments, v.cap)
    IN  /\ regs' = [regs EXCEPT ![r] = new.header]
        /\ heap' = Collect(regs', [heap EXCEPT ![new.id] = new.array])
        /\ slotCall' = NoSlotCall
        /\ UNCHANGED slotOthers

\* r = out: the struct is copied, the backing array is shared
KeepResult(r) ==
    /\ regs' = [regs EXCEPT ![r] = regs["out"]]
    /\ heap' = Collect(regs', heap)
    /\ slotCall' = NoSlotCall
    /\ UNCHANGED slotOthers

\* out = Combine(x, y)
CallCombine(x, y) ==
    LET c   == Combine(heap, regs[x], regs[y])
        new == Allocate("out", c.Comments, c.cap)
    IN  /\ regs' = [regs EXCEPT !["out"] = new.header]
        /\ heap' = Collect(regs', IF c.cap = 0 THEN c.heap
                                  ELSE [c.heap EXCEPT ![new.id] = new.array])
        /\ slotCall' = [kind |-> "combine", first |-> x, second |-> y,
                        firstBefore |-> Elements(heap, regs[x]),
                        secondBefore |-> Elements(heap, regs[y]),
                        result |-> c.Comments, found |-> FALSE]
        /\ UNCHANGED slotOthers

\* HasSlotValue([]SlotValue{a, b}, out)
CallHasSlotValue ==
    LET list == <<Elements(heap, regs["a"]), Elements(heap, regs["b"])>>
        v    == Elements(heap, regs["out"])
    IN  /\ slotCall' = [kind |-> "has", first |-> "a", second |-> "b",
                        firstBefore |-> list[1], secondBefore |-> list[2],
                        result |-> v, found |-> HasSlotValue(list, v)]
        /\ UNCHANGED <<regs, heap, slotOthers>>

SlotNext ==
    \/ \E r \in {"a", "b"} : \E c \in CommentStrings : CallMakeSlotValue(r, c)
    \/ \E r \in {"a", "b"} : KeepResult(r)
    \/ \E x \in {"a", "b"} : \E y \in {"a", "b"} : CallCombine(x, y)
    \/ CallHasSlotValue

(***************************************************************************)
(* Nomination (network/scp.go): NominationState, SetDefault, Handle        *)
(***************************************************************************)
\* the slot values of the callers, by their Comments: ["a"], ["b"], ["a", "b"]
SlotValues == { << <<97>> >>, << <<98>> >>, << <<97>>, <<98>> >> }

\* the nodes messages come from
Peers == {"n1", "n2"}

\* the quorum slice every message carries: any 2 of the two peers and us
Slice == [Members |-> <<"me", "n1", "n2">>, Threshold |-> 2]

\* the NominateMessages of slot 1 that the peers send
NominateMessages ==
    { [I |-> 1, X |-> x, Y |-> y, D |-> Slice] :
        x \in { <<>>, << << <<97>> >> >> },
        y \in { <<>>, << << <<98>> >> >> } }

\* the lists a NominationState literal is built with
SlotValueLists == { <<>>, << << <<97>> >> >>, << << <<98>> >>, << <<97>> >> >> }

NewNominationState == EmptyNominationState

\* s.HasNomination()
HasNomination(s) == Len(s.X) > 0

\* a SetDefault that overwrites X whatever it holds
SetDefault_Overwrite(s, v) == [s EXCEPT !.X = <<v>>]

\* s.SetDefault(v): the state after the call
SetDefault(s, v) == IF HasNomination(s) THEN s ELSE [s EXCEPT !.X = <<v>>]

\* a Handle that takes the message's accepted values as its own
Handle_AdoptAccepted(s, node, m) == [s EXCEPT !.Y = m.Y, !.N = (node :> m) @@ @]

\* s.Handle(node, m): the state after the call.  The body is empty.
Handle(s, node, m) == s

(***************************************************************************)
(* The callers of the nomination state                                     *)
(***************************************************************************)
\* the state is built by NewNominationState(), or as a literal of the
\* exported fields X, Y and Z
NominationInit ==
    /\ \/ nState = NewNominationState
       \/ \E x \in SlotValueLists, y \in SlotValueLists, z \in SlotValueLists :
              nState = [X |-> x, Y |-> y, Z |-> z, N |-> << >>]
    /\ nCall = NoNominationCall
    /\ nHistory = NoNominationHistory
    /\ SeedIdle
    /\ SignIdle
    /\ QueueIdle
    /\ ChunkIdle
    /\ SlotIdle
    /\ JsonIdle

CallSetDefault(v) ==
    /\ nState' = SetDefault(nState, v)
    /\ nCall' = [kind |-> "SetDefault", v |-> v, node |-> "", m |-> <<>>,
                 before |-> nState]
    /\ nHistory' = IF nHistory.defaulted THEN nHistory
                   ELSE [nHistory EXCEPT !.defaulted = TRUE, !.v = v,
                                         !.before = nState.X]
    /\ UNCHANGED nominationOthers

CallHandle(node, m) ==
    /\ nState' = Handle(nState, node, m)
    /\ nCall' = [kind |-> "Handle", v |-> <<>>, node |-> node, m |-> m,
                 before |-> nState]
    /\ nHistory' = [nHistory EXCEPT
                       !.heard = (node :> m) @@ nHistory.heard]
    /\ UNCHANGED nominationOthers

NominationNext ==
    \/ \E v \in SlotValues : CallSetDefault(v)
    \/ \E node \in Peers : \E m \in NominateMessages : CallHandle(node, m)

(***************************************************************************)
(* JSONObject (package data in consensus/seed_sort.go).  JSON text is a    *)
(* sequence of tokens: punctuation, a space, null, keys and numbers.       *)
(***************************************************************************)
\* the keys of the objects, in the order json.Marshal writes them
KeyOrder == <<"a", "b">>

Keys == {KeyOrder[i] : i \in 1..Len(KeyOrder)}

\* the decimal digits: the numbers of the model are 1 and 2
Digits == <<"0", "1", "2">>

Numbers == {1, 2}

FormatNumber(n) == Digits[n + 1]

IsNumber(t) == \E n \in Numbers : FormatNumber(n) = t

ParseNumber(t) == CHOOSE n \in Numbers : FormatNumber(n) = t

\* a non-nil map with the given entries
MapOf(m) == [isNil |-> FALSE, m |-> m]

\* the maps handed to NewJSONObject
Contents0 == {NilContent, MapOf(<< >>), MapOf("a" :> 1), MapOf("b" :> 2)}

\* the byte slices handed to ReadJSONObject, UnmarshalJSON and Scan:
\* {}  {"a":1}  {"a":2}  {"b":2}  {"b":2,"a":1}  { "a":1}  {"a":1,"a":2}
\* null  [1]  {"a":  and the empty slice
Texts ==
    { <<"{", "}">>,
      <<"{", "a", ":", "1", "}">>,
      <<"{", "a", ":", "2", "}">>,
      <<"{", "b", ":", "2", "}">>,
      <<"{", "b", ":", "2", ",", "a", ":", "1", "}">>,
      <<"{", " ", "a", ":", "1", "}">>,
      <<"{", "a", ":", "1", ",", "a", ":", "2", "}">>,
      <<"null">>,
      <<"[", "1", "]">>,
      <<"{", "a", ":">>,
      <<>> }

\* the sources handed to Scan: byte slices, and a value that is not one
ScanSources ==
    {[isBytes |-> TRUE, bytes |-> t] : t \in Texts}
        \cup {[isBytes |-> FALSE, bytes |-> <<>>]}

\* json.Marshal of a map: null for a nil map, else the entries by sorted key
Marshal(content) ==
    LET present == SelectSeq(KeyOrder, LAMBDA k : k \in DOMAIN content.m)
        Entry(i) == (IF i = 1 THEN <<>> ELSE <<",">>)
                        \o <<present[i], ":", FormatNumber(content.m[present[i]])>>
        Entries[i \in 0..Len(present)] ==
            IF i = 0 THEN <<>> ELSE Entries[i - 1] \o Entry(i)
    IN  IF content.isNil THEN <<"null">>
        ELSE <<"{">> \o Entries[Len(present)] \o <<"}">>

\* the members of an object: key : number, separated by commas
RECURSIVE Members(_)
Members(body) ==
    IF Len(body) < 3 \/ body[1] \notin Keys \/ body[2] # ":" \/ ~IsNumber(body[3])
    THEN [ok |-> FALSE, pairs |-> <<>>]
    ELSE IF Len(body) = 3
    THEN [ok |-> TRUE, pairs |-> << <<body[1], ParseNumber(body[3])>> >>]
    ELSE IF body[4] # ","
    THEN [ok |-> FALSE, pairs |-> <<>>]
    ELSE LET rest == Members(SubSeq(body, 5, Len(body)))
         IN  [ok |-> rest.ok,
              pairs |-> << <<body[1], ParseNumber(body[3])>> >> \o rest.pairs]

\* the JSON value a text holds, white space skipped: an object with its
\* members in order, null, another value, or none (invalid text)
Parse(text) ==
    LET s == SelectSeq(text, LAMBDA t : t # " ")
    IN  IF s = <<"null">> THEN [kind |-> "null", pairs |-> <<>>]
        ELSE IF Len(s) = 1 /\ IsNumber(s[1]) THEN [kind |-> "other", pairs |-> <<>>]
        ELSE IF Len(s) = 3 /\ s[1] = "[" /\ IsNumber(s[2]) /\ s[3] = "]"
        THEN [kind |-> "other", pairs |-> <<>>]
        ELSE IF s = <<"{", "}">> THEN [kind |-> "object", pairs |-> <<>>]
        ELSE IF Len(s) > 2 /\ s[1] = "{" /\ s[Len(s)] = "}"
                /\ Members(SubSeq(s, 2, Len(s) - 1)).ok
        THEN [kind |-> "object", pairs |-> Members(SubSeq(s, 2, Len(s) - 1)).pairs]
        ELSE [kind |-> "invalid", pairs |-> <<>>]

\* the members stored one by one into the map m: a later entry for a key wins
RECURSIVE Store(_, _)
Store(m, pairs) ==
    IF pairs = <<>> THEN m
    ELSE Store((pairs[1][1] :> pairs[1][2]) @@ m, Tail(pairs))

\* json.Unmarshal(bytes, &content): invalid text and a value that is not an
\* object are errors that leave the map alone, null makes the map nil, and an
\* object is stored into the existing map (a new one when it is nil)
Unmarshal(bytes, content) ==
    LET p == Parse(bytes)
    IN  IF p.kind \in {"invalid", "other"} THEN [err |-> TRUE, content |-> content]
        ELSE IF p.kind = "null" THEN [err |-> FALSE, content |-> NilContent]
        ELSE [err |-> FALSE, content |-> MapOf(Store(content.m, p.pairs))]

\* ob.encode()
encode(o) == [o EXCEPT !.bytes = Marshal(o.content)]

\* NewJSONObject(content)
NewJSONObject(content) ==
    encode([exists |-> TRUE, bytes |-> <<>>, content |-> content])

\* NewEmptyJSONObject()
NewEmptyJSONObject == NewJSONObject(MapOf(<< >>))

\* ob.UnmarshalJSON(bytes): the object after the call, and the error
UnmarshalJSON(o, bytes) ==
    LET u == Unmarshal(bytes, o.content)
    IN  [ob |-> [o EXCEPT !.bytes = bytes, !.content = u.content], err |-> u.err]

\* ReadJSONObject(bytes): the object returned (nil with an error)
ReadJSONObject(bytes) ==
    LET r == UnmarshalJSON([exists |-> TRUE, bytes |-> <<>>, content |-> NilContent],
                           bytes)
    IN  IF ~r.err THEN r ELSE [ob |-> NoObject, err |-> TRUE]

\* ob.Scan(src)
Scan(o, src) ==
    IF ~src.isBytes THEN [ob |-> o, err |-> TRUE] ELSE UnmarshalJSON(o, src.bytes)

\* ob.Set(key, value): writing to a nil map panics
Set(o, key, value) ==
    IF o.content.isNil THEN [ob |-> o, panicked |-> TRUE]
    ELSE [ob |-> encode([o EXCEPT !.content = MapOf((key :> value) @@ o.content.m)]),
          panicked |-> FALSE]

\* ob.GetInt(key): the value and whether there is one
GetInt(o, key) ==
    IF key \in DOMAIN o.content.m THEN <<o.content.m[key], TRUE>> ELSE <<0, FALSE>>

\* ob.MarshalJSON()
MarshalJSON(o) == o.bytes

(***************************************************************************)
(* The callers of JSONObject                                               *)
(***************************************************************************)
JsonInit ==
    /\ ob = NoObject
    /\ jsonCall = NoJsonCall
    /\ SeedIdle
    /\ SignIdle
    /\ QueueIdle
    /\ ChunkIdle
    /\ SlotIdle
    /\ NominationIdle

CallNewJSONObject(content) ==
    /\ ob' = NewJSONObject(content)
    /\ jsonCall' = [NoJsonCall EXCEPT !.kind = "NewJSONObject", !.before = ob]
    /\ UNCHANGED jsonOthers

CallNewEmptyJSONObject ==
    /\ ob' = NewEmptyJSONObject
    /\ jsonCall' = [NoJsonCall EXCEPT !.kind = "NewEmptyJSONObject", !.before = ob]
    /\ UNCHANGED jsonOthers

CallReadJSONObject(bytes) ==
    LET r == ReadJSONObject(bytes)
    IN  /\ ob' = r.ob
        /\ jsonCall' = [NoJsonCall EXCEPT !.kind = "ReadJSONObject", !.err = r.err,
                                          !.before = ob]
        /\ UNCHANGED jsonOthers

CallUnmarshalJSON(bytes) ==
    LET r == UnmarshalJSON(ob, bytes)
    IN  /\ ob.exists
        /\ ob' = r.ob
        /\ jsonCall' = [NoJsonCall EXCEPT !.kind = "UnmarshalJSON", !.err = r.err,
                                          !.before = ob]
        /\ UNCHANGED jsonOthers

CallScan(src) ==
    LET r == Scan(ob, src)
    IN  /\ ob.exists
        /\ ob' = r.ob
        /\ jsonCall' = [NoJsonCall EXCEPT !.kind = "Scan", !.err = r.err,
                                          !.before = ob]
        /\ UNCHANGED jsonOthers

CallSet(key, value) ==
    LET r == Set(ob, key, value)
    IN  /\ ob.exists
        /\ ob' = r.ob
        /\ jsonCall' = [NoJsonCall EXCEPT !.kind = "Set", !.panicked = r.panicked,
                                          !.before = ob]
        /\ UNCHANGED jsonOthers

CallGetInt(key) ==
    /\ ob.exists
    /\ jsonCall' = [NoJsonCall EXCEPT !.kind = "GetInt", !.before = ob,
                                      !.result = GetInt(ob, key)]
    /\ UNCHANGED <<ob, jsonOthers>>

CallMarshalJSON ==
    /\ ob.exists
    /\ jsonCall' = [NoJsonCall EXCEPT !.kind = "MarshalJSON", !.before = ob,
                                      !.result = MarshalJSON(ob)]
    /\ UNCHANGED <<ob, jsonOthers>>

JsonNext ==
    \/ \E content \in Contents0 : CallNewJSONObject(content)
    \/ CallNewEmptyJSONObject
    \/ \E bytes \in Texts : CallReadJSONObject(bytes)
    \/ \E bytes \in Texts : CallUnmarshalJSON(bytes)
    \/ \E src \in ScanSources : CallScan(src)
    \/ \E key \in Keys : \E value \in Numbers : CallSet(key, value)
    \/ \E key \in Keys : CallGetInt(key)
    \/ CallMarshalJSON

(***************************************************************************)
(* Specifications: one component is exercised, the others are at rest      *)
(***************************************************************************)
SpecSeed == SeedInit /\ [][SeedNext]_vars

SpecSign == SignInit /\ [][SignNext]_vars

SpecQueue == QueueInit /\ [][QueueNext]_vars

SpecChunk == ChunkInit /\ [][ChunkNext]_vars

SpecSlot == SlotInit /\ [][SlotNext]_vars

SpecNomination == NominationInit /\ [][NominationNext]_vars

SpecJson == JsonInit /\ [][JsonNext]_vars

(***************************************************************************)
(* SHA3-512 of seed || node, for the claim about the order of the digests  *)
(***************************************************************************)
\* the leading eight bytes of SHA3-512(seed || node) for every seed and node of
\* the model; the digests differ within these bytes, which decides their order
Sha3_512Table ==
    (<<115, 108, 111, 116, 58, 55, 58, 114, 111, 117, 110, 100, 58, 48, 65>>
        :> <<20, 151, 134, 168, 45, 207, 205, 15>>) @@
    (<<115, 108, 111, 116, 58, 55, 58, 114, 111, 117, 110, 100, 58, 48, 66>>
        :> <<77, 231, 44, 102, 128, 66, 126, 203>>) @@
    (<<115, 108, 111, 116, 58, 55, 58, 114, 111, 117, 110, 100, 58, 48, 67>>
        :> <<148, 155, 34, 30, 202, 197, 168, 115>>) @@
    (<<115, 108, 111, 116, 58, 55, 58, 114, 111, 117, 110, 100, 58, 48, 65, 66>>
        :> <<18, 109, 36, 53, 12, 101, 247, 170>>) @@
    (<<115, 108, 111, 116, 58, 55, 58, 114, 111, 117, 110, 100, 58, 49, 65>>
        :> <<106, 211, 109, 84, 174, 176, 76, 75>>) @@
    (<<115, 108, 111, 116, 58, 55, 58, 114, 111, 117, 110, 100, 58, 49, 66>>
        :> <<41, 140, 21, 18, 192, 201, 45, 185>>) @@
    (<<115, 108, 111, 116, 58, 55, 58, 114, 111, 117, 110, 100, 58, 49, 67>>
        :> <<38, 123, 97, 194, 73, 180, 219, 228>>) @@
    (<<115, 108, 111, 116, 58, 55, 58, 114, 111, 117, 110, 100, 58, 49, 65, 66>>
        :> <<125, 173, 184, 222, 241, 227, 77, 179>>)

Sha3_512(x) == Sha3_512Table[x]

(***************************************************************************)
(* Claims about the seeded priority                                        *)
(***************************************************************************)
Count(x, s) == Cardinality({i \in 1..Len(s) : s[i] = x})

IsPermutationOf(a, b) ==
    /\ Len(a) = Len(b)
    /\ \A i \in 1..Len(a) : Count(a[i], a) = Count(a[i], b)

IsDistinct(s) == \A i, j \in 1..Len(s) : s[i] = s[j] => i = j

\* every reordering of the list s
Reorderings(s) ==
    {[i \in 1..Len(s) |-> s[p[i]]] : p \in Permutations(1..Len(s))}

\* C8: what SeedSort(seed, input) returned is a permutation of input, repeated
\* nodes keeping their multiplicity, and it is what every call with the same
\* seed and input returns
C8_SeedSortPermutation ==
    sortCalled =>
        /\ IsPermutationOf(answer, input)
        /\ answer = SeedSort(seed, input)

\* C8 witness: SeedSort has returned for a list that repeats a node and that it
\* had to reorder
C8_Witness ==
    /\ sortCalled
    /\ Len(input) = MaxInput
    /\ ~IsDistinct(input)
    /\ answer # input

\* C9: for a list of distinct nodes, the priority a SeedPriority call returned
\* for a node of the list is the priority it returns under every reordering
\* of the list
C9_SeedPriorityOrderIndependent ==
    (prio.called /\ IsDistinct(input) /\ \E i \in 1..Len(input) : input[i] = prio.node) =>
        \A p \in Reorderings(input) :
            SeedPriority(seed, p, prio.node) =
                [panicked |-> prio.panicked, index |-> prio.index]

\* C9 witness: SeedPriority has returned a node's index in a list of three
\* distinct nodes that is not already in sorted order
C9_Witness ==
    /\ prio.called
    /\ ~prio.panicked
    /\ Len(input) = 3
    /\ IsDistinct(input)
    /\ input[prio.index + 1] # prio.node

\* C10 (the claim as stated): the list SeedSort returned is in ascending order
\* of SHA3-512(seed || node)
C10_AscendingDigests ==
    sortCalled =>
        \A i, j \in 1..Len(answer) :
            i < j => StringLeq(Sha3_512(seed \o answer[i]), Sha3_512(seed \o answer[j]))

\* C20: SeedPriority(seed, input, node) panics exactly when node does not
\* occur in input; otherwise it returns an index i, 0 <= i < len(input), at
\* which SeedSort(seed, input) holds node, and no smaller index does.
C20_SeedPriorityIndexOrPanic ==
    prio.called =>
        LET sorted == SeedSort(seed, input)
            occurs == \E i \in 1..Len(input) : input[i] = prio.node
        IN  /\ prio.panicked <=> ~occurs
            /\ occurs =>
                  /\ 0 <= prio.index
                  /\ prio.index < Len(input)
                  /\ sorted[prio.index + 1] = prio.node
                  /\ \A j \in 1..prio.index : sorted[j] # prio.node

\* a call for a node that is in the input twice and is not sorted first
C20_Witness ==
    /\ prio.called
    /\ ~prio.panicked
    /\ prio.index > 0
    /\ Cardinality({i \in 1..Len(input) : input[i] = prio.node}) = 2

(***************************************************************************)
(* Claims about signed operations                                          *)
(***************************************************************************)
\* s.Signature is a signature of the serialized operation under the key the
\* operation names as its signer
HasValidSignature(s) ==
    /\ ~IsNilOperation(s.Operation)
    /\ ~ReadPublicKey(s.Operation.signer).err
    /\ ~JsonMarshal(s.Operation).err
    /\ Verify(ReadPublicKey(s.Operation.signer).pk, JsonMarshal(s.Operation).bytes,
              s.Signature)

\* C5 (the claim as stated): Verify() returns true on what NewSignedOperation(op, kp)
\* returned, for every non-nil op and the key pair of op's signer
C5_SignVerifyRoundTrip ==
    (verified.called /\ origin = "signed") => (~verified.panicked /\ verified.result)

\* C6: Verify() never panics, and it returns true only when the Signature field
\* is a valid signature of the serialized operation under the signer's key: it
\* returns false for a nil operation, an unparseable signer, an empty signature
\* and an operation or signature altered after signing
C6_VerifyOnlyValid ==
    verified.called =>
        /\ ~verified.panicked
        /\ verified.result => HasValidSignature(sop)

\* C6 witness: Verify() has returned false on an operation whose Sequence was
\* altered after it was signed
C6_Witness ==
    /\ verified.called
    /\ origin = "tampered"
    /\ ~verified.result
    /\ ~IsNilOperation(sop.Operation)
    /\ sop.Signature.kind = "sig"
    /\ sop.Signature.key = sop.Operation.signer.key
    /\ ~JsonMarshal(sop.Operation).err
    /\ sop.Signature.msg # JsonMarshal(sop.Operation).bytes

(***************************************************************************)
(* Claims about the transaction queue                                      *)
(***************************************************************************)
\* every transaction of P is signed, and each signer's balance covers all of
\* the signer's transactions in P: Add accepts each of them, in any order
AllAccepted(P) ==
    /\ \A c \in P : c.sig = "valid"
    /\ \A c \in P : SumCost({d \in P : d.from = c.from}) <= Balance(c.from)

DistinctFees(P) == \A c, d \in P : c.fee = d.fee => c = d

\* the n transactions of P at the highest fees
HighestFee(P, n) == {c \in P : Cardinality({d \in P : d.fee > c.fee}) < n}

ContentsOf(q) == {e.content : e \in q}

Min(a, b) == IF a < b THEN a ELSE b

\* C1: Size() never exceeds QueueLimit, and once QueueLimit or more distinct
\* transactions were added and accepted, none removed, Size() is QueueLimit
C1_SizeAtMostQueueLimit ==
    /\ Size(queue) <= QueueLimit
    /\ (~removedAny /\ AllAccepted(pending) /\ Cardinality(pending) >= QueueLimit)
            => Size(queue) = QueueLimit

\* C1 witness: all QueueLimit + Overflow test transactions were added
C1_Witness ==
    /\ ~removedAny
    /\ pending = TestContents
    /\ lastOp.kind = "add"
    /\ Size(queue) = QueueLimit

C3_AddIgnoresNilAndUnsigned ==
    (lastOp.kind = "add" /\ lastOp.tx.content.sig \in {"nil", "none"})
        => queue = lastOp.before

\* C3 witness: the unsigned transaction was added to a queue that holds entries
\* and has room
C3_Witness ==
    /\ lastOp.kind = "add"
    /\ lastOp.tx.content = UnsignedContent
    /\ lastOp.before # {}
    /\ Size(lastOp.before) < QueueLimit

\* C4: Remove(tx) removes exactly the entry whose content is that of tx, whether
\* or not tx is the queued object, and changes nothing when there is no such
\* entry; once every transaction handed to Add was handed to Remove, the queue
\* is empty
C4_RemoveByContent ==
    /\ lastOp.kind = "remove"
            => queue = {e \in lastOp.before : e.content # lastOp.tx.content}
    /\ (lastOp.kind = "remove" /\ lastOp.tx.content \notin ContentsOf(lastOp.before))
            => queue = lastOp.before
    /\ pending = {} => Size(queue) = 0

\* C4 witness: a separately constructed copy was removed from a queue that
\* keeps another entry
C4_Witness ==
    /\ lastOp.kind = "remove"
    /\ lastOp.tx.obj = 2
    /\ Original(lastOp.tx.content) \in lastOp.before
    /\ Original(lastOp.tx.content) \notin queue
    /\ queue # {}

(***************************************************************************)
(* Claims about ledger chunk hashing                                       *)
(***************************************************************************)
\* the bounded sequences over S
SeqsUpTo(S, n) == UNION {[1..m -> S] : m \in 0..n}

\* every chunk of the model
AllChunks ==
    [Transactions : SeqsUpTo(ChunkTransactions, MaxTxs),
     State : UNION {[D -> Accounts] : D \in SUBSET Addresses}]

\* the same transactions in the same order, the same account at each address
SameChunk(a, b) ==
    /\ Len(a.Transactions) = Len(b.Transactions)
    /\ \A i \in 1..Len(a.Transactions) : a.Transactions[i] = b.Transactions[i]
    /\ DOMAIN a.State = DOMAIN b.State
    /\ \A x \in DOMAIN a.State :
          /\ a.State[x].Sequence = b.State[x].Sequence
          /\ a.State[x].Balance = b.State[x].Balance

\* C7: the hash of the chunk equals the hash of another chunk, whichever way
\* either map is iterated, exactly when the two hold the same transactions in
\* the same order and the same account at each address
C7_HashEqualIffSameChunk ==
    chunkHash.called =>
        \A other \in AllChunks : \A keys \in IterationOrders(other.State) :
            (LedgerChunk_Hash(other, keys) = chunkHash.value) <=> SameChunk(other, chunk)

\* C7 witness: the test's chunk1 was chunkHash
C7_Witness ==
    /\ chunkHash.called
    /\ chunk.Transactions = <<TestContent(1), TestContent(2)>>
    /\ DOMAIN chunk.State = Addresses
    /\ chunk.State[<<97, 49>>] = [Sequence |-> 1, Balance |-> 2]
    /\ chunk.State[<<97, 50>>] = [Sequence |-> 1, Balance |-> 20]

(***************************************************************************)
(* Claims about slot values                                                *)
(***************************************************************************)
\* the elements of a sequence
Range(s) == {s[i] : i \in 1..Len(s)}

\* strictly ascending: sorted and free of duplicates
IsStrictlyAscending(s) == \A i \in 1..(Len(s) - 1) : StringLess(s[i], s[i + 1])

\* C11: every Combine call returns the sorted, duplicate-free union of the
\* comments its two arguments hold when it is called, and the call that
\* follows it with the two arguments swapped returns the same comments.
C11_CombineSortedUnionCommutative ==
    [][slotCall'.kind = "combine" =>
          /\ IsStrictlyAscending(slotCall'.result)
          /\ Range(slotCall'.result) =
                 Range(slotCall'.firstBefore) \cup Range(slotCall'.secondBefore)
          /\ (/\ slotCall.kind = "combine"
              /\ slotCall.first = slotCall'.second
              /\ slotCall.second = slotCall'.first)
             => slotCall'.result = slotCall.result]_vars

\* C17: after a Combine call both arguments hold the elements they held
\* before it, in the same order.
C17_CombineLeavesArguments ==
    slotCall.kind = "combine" =>
        /\ Elements(heap, regs[slotCall.first]) = slotCall.firstBefore
        /\ Elements(heap, regs[slotCall.second]) = slotCall.secondBefore

\* C18: HasSlotValue(list, v) is true exactly when an element of list has
\* the same Comments sequence as v.
C18_HasSlotValueExact ==
    slotCall.kind = "has" =>
        (slotCall.found <=>
            \E s \in {slotCall.firstBefore, slotCall.secondBefore} : s = slotCall.result)

(***************************************************************************)
(* Claims about nomination                                                 *)
(***************************************************************************)
\* the values in a list of slot values
ValuesOf(list) == {list[i] : i \in 1..Len(list)}

\* C12: a SetDefault(v) call sets X to [v] when X is empty and changes
\* nothing when X is not empty, and leaves Y, Z and N as they were; so from
\* the first SetDefault call on HasNomination() is true, and when X was
\* empty before that call X holds the value of that call and no other.
C12_SetDefaultOnlyFirst ==
    /\ nCall.kind = "SetDefault" =>
          /\ nCall.before.X = <<>> => nState.X = <<nCall.v>>
          /\ nCall.before.X # <<>> => nState.X = nCall.before.X
          /\ nState.Y = nCall.before.Y
          /\ nState.Z = nCall.before.Z
          /\ nState.N = nCall.before.N
    /\ nHistory.defaulted =>
          /\ HasNomination(nState)
          /\ nHistory.before = <<>> => nState.X = <<nHistory.v>>

\* a second SetDefault call, with another value, on a state whose X the
\* first call filled
C12_Witness ==
    /\ nCall.kind = "SetDefault"
    /\ nHistory.before = <<>>
    /\ nCall.before.X = <<nHistory.v>>
    /\ nCall.v # nHistory.v
    /\ nState.X = <<nHistory.v>>

\* C13: N holds, for each node, the last message handed to Handle for it.
C13_HandleRecordsLastMessage ==
    \A node \in DOMAIN nHistory.heard :
        /\ node \in DOMAIN nState.N
        /\ nState.N[node] = nHistory.heard[node]

\* C14: no step removes a value from Y or from Z.
C14_NominationMonotone ==
    [][/\ ValuesOf(nState.Y) \subseteq ValuesOf(nState'.Y)
       /\ ValuesOf(nState.Z) \subseteq ValuesOf(nState'.Z)]_vars

\* a Handle call with a message that does not name the values in Y and Z,
\* after a SetDefault call, on a state whose Y and Z hold values
C14_Witness ==
    /\ nCall.kind = "Handle"
    /\ nHistory.defaulted
    /\ nCall.m.Y = <<>>
    /\ nCall.before.Y # <<>>
    /\ nCall.before.Z # <<>>
    /\ nState.Y = nCall.before.Y
    /\ nState.Z = nCall.before.Z

(***************************************************************************)
(* Claims about JSONObject                                                 *)
(***************************************************************************)
\* what decoding a text into a fresh map yields, when it can be decoded
Decodes(bytes, content) ==
    LET u == Unmarshal(bytes, NilContent)
    IN  ~u.err /\ u.content = content

\* C16: after every call the object's bytes decode to exactly the mapping
\* its content holds.
C16_BytesEncodeContent ==
    ob.exists => Decodes(ob.bytes, ob.content)

\* C19: an UnmarshalJSON or Scan call that returns an error leaves the
\* object's bytes and content as they were.
C19_ErrorLeavesObject ==
    (jsonCall.kind \in {"UnmarshalJSON", "Scan"} /\ jsonCall.err)
        => ob = jsonCall.before
====
